---- MODULE Spec2Model ----
(***************************************************************************)
(* Model of gdtools/dice.py: the range normaliser, the Dice class and the  *)
(* DicePool class.  Dice and DicePool objects are immutable values; the    *)
(* state machine keeps one pool register (`pool`, the object the next      *)
(* method is called on) and the record of the last call evaluated (`last`: *)
(* which method, on which object, with which argument, what it returned or *)
(* which exception it raised).                                             *)
(*                                                                         *)
(* Conventions                                                             *)
(*   range(a, b)      [start |-> a, stop |-> b]   (step is always 1)       *)
(*   x / y (float)    [num |-> x, den |-> y]      (exact rational)         *)
(*   Counter          sequence of [key, n] in insertion order, as a Python *)
(*                    dict keeps it                                        *)
(*   a call's outcome [exc |-> "none", val |-> v] or [exc |-> E, val |-> None] *)
(*   int arguments    the isinstance(.., int) guards of Dice.__init__ and  *)
(*                    of rgt/rge/rlt/rle pass: arguments are drawn from    *)
(*                    the integers only                                    *)
(***************************************************************************)
EXTENDS Integers, Sequences, FiniteSets, TLC

VARIABLES pool, last, base

vars == <<pool, last, base>>

(* ------------------------------ bounds --------------------------------- *)

\* largest number of faces of a die or raw range handed to a pool
MaxFace == 2
\* largest number of ranges a pool of the model holds
MaxRngs == 2
\* largest |modifier| of a pool of the model, of an int operand, and of the
\* own modifier (start - 1) of a die handed to a pool
MaxMod == 1
\* Dice constructor and normaliser arguments are drawn from -MaxP..MaxP
MaxP == 4
\* thresholds are drawn from (min - Slack)..(max + Slack) of the subject
Slack == 1

(* ------------------------------ values --------------------------------- *)

None == "None"

Ok(v) == [exc |-> "none", val |-> v]

Raise(e) == [exc |-> e, val |-> None]

Abs(n) == IF n < 0 THEN -n ELSE n

Range(a, b) == [start |-> a, stop |-> b]

\* len(range(a, b))
RangeLen(r) == IF r.stop > r.start THEN r.stop - r.start ELSE 0

\* list(range(a, b))
RangeSeq(r) == [i \in 1..RangeLen(r) |-> r.start + i - 1]

\* range.__eq__: equal as sequences (two empty ranges are equal)
RangeEq(r, s) == RangeSeq(r) = RangeSeq(s)

RECURSIVE SumSeq(_)
\* sum(iterable of ints)
SumSeq(s) == IF s = <<>> THEN 0 ELSE s[1] + SumSeq(Tail(s))

Rat(n, d) == [num |-> n, den |-> d]

\* x / y of Python: ZeroDivisionError when y = 0
Div(n, d) == IF d = 0 THEN Raise("ZeroDivisionError") ELSE Ok(Rat(n, d))

(* --------------------------- normalize_rng ----------------------------- *)

\* a value tagged by the type isinstance() sees
IntC(n) == [kind |-> "int", int |-> n]

DiceC(d) == [kind |-> "Dice", dice |-> d]

RangeC(r) == [kind |-> "range", range |-> r]

PoolC(p) == [kind |-> "DicePool", dicepool |-> p]

\* a normaliser that shifts the range to start at 0 instead of 1
normalize_rng_shifted(value) ==
    LET rng == IF value.kind = "Dice" THEN value.dice.rng ELSE value.range
        mod == rng.start
    IN  [rng |-> Range(rng.start - mod, rng.stop - mod), mod |-> mod]

\* normalize_rng(value), value a Dice or a range
normalize_rng(value) ==
    LET rng == IF value.kind = "Dice" THEN value.dice.rng ELSE value.range
        mod == rng.start - 1
    IN  [rng |-> Range(rng.start - mod, rng.stop - mod), mod |-> mod]

(* ------------------------------- Dice ---------------------------------- *)

\* Dice.__init__(p1, p2): `two` says whether p2 was given
Dice_init(p1, p2, two) ==
    LET rng == IF two THEN Range(p1, p2 + 1) ELSE Range(1, p1 + 1)
        avg == Div(SumSeq(RangeSeq(rng)), rng.stop - 1)
    IN  IF avg.exc # "none" THEN Raise(avg.exc)
        ELSE Ok([rng |-> rng, avg |-> avg.val, min |-> rng.start,
                 max |-> rng.stop - 1, sides |-> rng.stop - 1])

\* comparator lambdas of the probability queries
Compare(cmp, a, b) ==
    CASE cmp = "gt" -> a > b
      [] cmp = "ge" -> a >= b
      [] cmp = "lt" -> a < b
      [] cmp = "le" -> a <= b

\* number of elements x of sequence s with comparator(x, t)
CountIf(s, cmp, t) == Cardinality({i \in 1..Len(s) : Compare(cmp, s[i], t)})

\* Dice._chances: len() of a generator expression raises TypeError
Dice_chances(d, threshold, cmp) == Raise("TypeError")

\* Dice.rgt
Dice_rgt(d, threshold) == Div(CountIf(RangeSeq(d.rng), "gt", threshold), d.max)

\* Dice.rge
Dice_rge(d, threshold) == Dice_chances(d, threshold, "ge")

\* Dice.rlt
Dice_rlt(d, threshold) == Dice_chances(d, threshold, "lt")

\* Dice.rle
Dice_rle(d, threshold) == Dice_chances(d, threshold, "le")

(* ----------------------------- DicePool -------------------------------- *)

RECURSIVE product(_)
\* list(itertools.product(*rngs)): the last range varies fastest
product(rngs) ==
    IF rngs = <<>> THEN << <<>> >>
    ELSE LET head == RangeSeq(rngs[1])
             rest == product(Tail(rngs))
             m    == Len(rest)
         IN  [i \in 1..(Len(head) * m) |->
                 <<head[((i - 1) \div m) + 1]>> \o rest[((i - 1) % m) + 1]]

\* a Counter that forgets the earlier occurrences of a key
Counter_count_last(c, k) ==
    IF \E i \in 1..Len(c) : c[i].key = k
    THEN [i \in 1..Len(c) |-> IF c[i].key = k THEN [key |-> k, n |-> 1] ELSE c[i]]
    ELSE Append(c, [key |-> k, n |-> 1])

\* a Counter that puts a new key first instead of last
Counter_count_front(c, k) ==
    IF \E i \in 1..Len(c) : c[i].key = k
    THEN [i \in 1..Len(c) |->
             IF c[i].key = k THEN [key |-> k, n |-> c[i].n + 1] ELSE c[i]]
    ELSE <<[key |-> k, n |-> 1]>> \o c

\* Counter: count one more occurrence of k (a new key goes last)
Counter_count(c, k) ==
    IF \E i \in 1..Len(c) : c[i].key = k
    THEN [i \in 1..Len(c) |->
             IF c[i].key = k THEN [key |-> k, n |-> c[i].n + 1] ELSE c[i]]
    ELSE Append(c, [key |-> k, n |-> 1])

RECURSIVE CounterFrom(_, _, _)
CounterFrom(s, i, c) ==
    IF i > Len(s) THEN c ELSE CounterFrom(s, i + 1, Counter_count(c, s[i]))

\* Counter(iterable)
Counter(s) == CounterFrom(s, 1, <<>>)

\* list(counter.keys()) and list(counter.values())
Keys(c) == [i \in 1..Len(c) |-> c[i].key]

Values(c) == [i \in 1..Len(c) |-> c[i].n]

\* Counter.__eq__: the same count for every key
CounterEq(c1, c2) ==
    {<<c1[i].key, c1[i].n>> : i \in 1..Len(c1)}
        = {<<c2[i].key, c2[i].n>> : i \in 1..Len(c2)}

RECURSIVE Collect(_, _, _)
\* the loop of DicePool.__init__ over args: an int is added to mod, a Dice
\* or a range is normalised, anything else matches no branch
Collect(args, rngs, mod) ==
    IF args = <<>> THEN [rngs |-> rngs, mod |-> mod]
    ELSE LET arg == Head(args)
         IN  IF arg.kind = "int"
             THEN Collect(Tail(args), rngs, mod + arg.int)
             ELSE IF arg.kind \in {"Dice", "range"}
             THEN LET nrm == normalize_rng(arg)
                  IN  Collect(Tail(args), Append(rngs, nrm.rng), mod + nrm.mod)
             ELSE Collect(Tail(args), rngs, mod)

\* DicePool.__init__(*args)
DicePool_init(args) ==
    LET got  == Collect(args, <<>>, 0)
        prod == product(got.rngs)
        dist == Counter([i \in 1..Len(prod) |-> SumSeq(prod[i]) + got.mod])
    IN  IF dist = <<>> THEN Raise("StopIteration")
        ELSE Ok([rngs  |-> got.rngs,
                 mod   |-> got.mod,
                 dist  |-> dist,
                 min   |-> dist[1].key,
                 max   |-> dist[Len(dist)].key,
                 range |-> Range(Keys(dist)[1], Keys(dist)[Len(dist)])])

\* *self.rngs as constructor arguments
RngArgs(rngs) == [i \in 1..Len(rngs) |-> RangeC(rngs[i])]

\* rng in self.rngs
RangeIn(rng, rngs) == \E i \in 1..Len(rngs) : RangeEq(rngs[i], rng)

\* list.remove(rng): drops the first element equal to rng
ListRemove(rngs, rng) ==
    LET i == CHOOSE j \in 1..Len(rngs) :
                 /\ RangeEq(rngs[j], rng)
                 /\ \A k \in 1..(j - 1) : ~RangeEq(rngs[k], rng)
    IN  SubSeq(rngs, 1, i - 1) \o SubSeq(rngs, i + 1, Len(rngs))

\* DicePool.__add__(other), other an int
DicePool_add_int(self, other) ==
    DicePool_init(Append(RngArgs(self.rngs), IntC(self.mod + other)))

\* DicePool.__add__(other), other a Dice
DicePool_add_dice(self, other) ==
    DicePool_init(RngArgs(self.rngs) \o <<RangeC(other.rng), IntC(self.mod)>>)

\* DicePool.__add__(other), other a DicePool
DicePool_add_pool(self, other) ==
    DicePool_init(Append(RngArgs(self.rngs \o other.rngs),
                         IntC(self.mod + other.mod)))

\* DicePool.__sub__(other), other an int
DicePool_sub_int(self, other) ==
    DicePool_init(Append(RngArgs(self.rngs), IntC(self.mod - other)))

\* a subtraction that leaves the die's own modifier in the pool
DicePool_sub_dice_keeps_mod(self, other) ==
    LET nrm == normalize_rng(DiceC(other))
    IN  IF RangeIn(nrm.rng, self.rngs)
        THEN DicePool_init(Append(RngArgs(ListRemove(self.rngs, nrm.rng)),
                                  IntC(self.mod)))
        ELSE Raise("ValueError")

\* a subtraction that returns the pool as it is when the range is missing
DicePool_sub_dice_silent(self, other) ==
    LET nrm == normalize_rng(DiceC(other))
    IN  IF RangeIn(nrm.rng, self.rngs)
        THEN DicePool_init(Append(RngArgs(ListRemove(self.rngs, nrm.rng)),
                                  IntC(self.mod - nrm.mod)))
        ELSE Ok(self)

\* DicePool.__sub__(other), other a Dice
DicePool_sub_dice(self, other) ==
    LET nrm == normalize_rng(DiceC(other))
    IN  IF RangeIn(nrm.rng, self.rngs)
        THEN DicePool_init(Append(RngArgs(ListRemove(self.rngs, nrm.rng)),
                                  IntC(self.mod - nrm.mod)))
        ELSE Raise("ValueError")

\* tuple.__eq__ between a tuple of ranges and a tuple of ints: same length
\* and equal elements; a range object never equals an int
RangeEqInt(r, n) == FALSE

TupleEq(rngs, ints) ==
    /\ Len(rngs) = Len(ints)
    /\ \A i \in 1..Len(rngs) : RangeEqInt(rngs[i], ints[i])

\* DicePool.__eq__(other), other a Dice
DicePool_eq_dice(self, other) ==
    LET nrm == normalize_rng(DiceC(other))
    IN  TupleEq(self.rngs, RangeSeq(nrm.rng)) /\ self.mod = nrm.mod

\* DicePool._chances
DicePool_chances(self, threshold, cmp) ==
    LET total_chances   == SumSeq(Values(self.dist))
        chances_to_pass ==
            SumSeq(Values(SelectSeq(self.dist,
                       LAMBDA e : Compare(cmp, e.key, threshold))))
    IN  Div(chances_to_pass, total_chances)

\* DicePool.rgt / rge / rlt / rle
DicePool_rgt(self, threshold) == DicePool_chances(self, threshold, "gt")

DicePool_rge(self, threshold) == DicePool_chances(self, threshold, "ge")

DicePool_rlt(self, threshold) == DicePool_chances(self, threshold, "lt")

DicePool_rle(self, threshold) == DicePool_chances(self, threshold, "le")

\* DicePool.roll with random.randrange(len(product) - 1) drawing index i:
\* randrange(n) raises ValueError for n <= 0 and draws from 0..n-1 otherwise
RollIndices(self) == 0..(Len(product(self.rngs)) - 2)

DicePool_roll(self, i) ==
    LET prod == product(self.rngs)
    IN  IF Len(prod) - 1 <= 0 THEN Raise("ValueError")
        ELSE Ok(SumSeq(prod[i + 1]))

(* ------------------------------ inputs --------------------------------- *)

\* the Dice objects Dice(p1) and Dice(p1, p2) that construct without raising
DiceOf(args) ==
    {Dice_init(a[1], a[2], a[3]).val :
        a \in {b \in args : Dice_init(b[1], b[2], b[3]).exc = "none"}}

\* dice handed to pools: d1..d<MaxFace>, and ranged dice with an own
\* modifier (start - 1) within -MaxMod..MaxMod, the empty ones included
PoolDice ==
    DiceOf({<<n, 0, FALSE>> : n \in 1..MaxFace}
           \cup {<<a, b, TRUE>> : a \in (1 - MaxMod)..(1 + MaxMod),
                                  b \in (-MaxMod)..(MaxMod + MaxFace)})
    \cap {d \in DiceOf({<<a, b, TRUE>> : a \in (1 - MaxMod)..(1 + MaxMod),
                                         b \in (-MaxMod)..(MaxMod + MaxFace)}
                       \cup {<<n, 0, FALSE>> : n \in 1..MaxFace}) :
             /\ d.rng.stop >= d.rng.start
             /\ RangeLen(d.rng) <= MaxFace}

\* the components the constructor is called with: ints, dice with and
\* without an own modifier, raw ranges (one of them empty), and DicePool q
CtorComponents(q) ==
    {IntC(-1), IntC(MaxMod),
     DiceC(Dice_init(MaxFace, 0, FALSE).val),
     DiceC(Dice_init(2, 3, TRUE).val),
     RangeC(Range(1, 3)), RangeC(Range(0, 1)), RangeC(Range(1, 1)),
     PoolC(q)}

\* DicePool(), DicePool(x) and DicePool(x, y)
CtorArgs(q) ==
    {<<>>} \cup {<<x>> : x \in CtorComponents(q)}
           \cup {<<x, y>> : x \in CtorComponents(q), y \in CtorComponents(q)}

\* pools given as the right operand of +
OperandPools ==
    {DicePool_init(<<DiceC(Dice_init(2, 0, FALSE).val)>>).val,
     DicePool_init(<<RangeC(Range(1, 2)), IntC(1)>>).val}

Ints == (-MaxMod)..MaxMod

(* --------------------------- state machine ----------------------------- *)

Call(op, self, arg, r) ==
    [op |-> op, self |-> self, arg |-> arg, exc |-> r.exc, ret |-> r.val]

NoBase == [set |-> FALSE, pool |-> None, die |-> None]

\* the pools the model keeps: at most MaxRngs ranges, |mod| <= MaxMod
Fits(nrngs, mod) == nrngs <= MaxRngs /\ Abs(mod) <= MaxMod

\* pool = the result of a constructor or operator that returned one
Result(r) == IF r.exc = "none" THEN r.val ELSE pool

Init ==
    /\ pool = DicePool_init(<<>>).val
    /\ last = Call("none", None, None, Ok(None))
    /\ base = NoBase

\* p = DicePool(*args)
Construct(args) ==
    LET r == DicePool_init(args)
    IN  /\ LET got == Collect(args, <<>>, 0) IN Fits(Len(got.rngs), got.mod)
        /\ last' = Call("DicePool", None, args, r)
        /\ pool' = Result(r)
        /\ base' = NoBase

\* p = p + n
AddInt(n) ==
    LET r == DicePool_add_int(pool, n)
    IN  /\ Fits(Len(pool.rngs), pool.mod + n)
        /\ last' = Call("add_int", pool, n, r)
        /\ pool' = Result(r)
        /\ base' = NoBase

\* p = q + d; base remembers q and d
AddDice(d) ==
    LET r == DicePool_add_dice(pool, d)
    IN  /\ Fits(Len(pool.rngs) + 1, pool.mod + d.rng.start - 1)
        /\ last' = Call("add_dice", pool, d, r)
        /\ pool' = Result(r)
        /\ base' = IF r.exc = "none"
                   THEN [set |-> TRUE, pool |-> pool, die |-> d] ELSE NoBase

\* p = p + q
AddPool(q) ==
    LET r == DicePool_add_pool(pool, q)
    IN  /\ Fits(Len(pool.rngs) + Len(q.rngs), pool.mod + q.mod)
        /\ last' = Call("add_pool", pool, q, r)
        /\ pool' = Result(r)
        /\ base' = NoBase

\* p = p - n
SubInt(n) ==
    LET r == DicePool_sub_int(pool, n)
    IN  /\ Fits(Len(pool.rngs), pool.mod - n)
        /\ last' = Call("sub_int", pool, n, r)
        /\ pool' = Result(r)
        /\ base' = NoBase

\* p = p - d; base is kept when this call follows q + d directly
SubDice(d) ==
    LET r == DicePool_sub_dice(pool, d)
    IN  /\ Fits(Len(pool.rngs), pool.mod - (d.rng.start - 1))
        /\ last' = Call("sub_dice", pool, d, r)
        /\ pool' = Result(r)
        /\ base' = IF last.op = "add_dice" THEN base ELSE NoBase

Next ==
    \/ \E args \in CtorArgs(pool) : Construct(args)
    \/ \E n \in Ints : AddInt(n)
    \/ \E d \in PoolDice : AddDice(d)
    \/ \E q \in OperandPools \cup {pool} : AddPool(q)
    \/ \E n \in Ints : SubInt(n)
    \/ \E d \in PoolDice : SubDice(d)

Spec == Init /\ [][Next]_vars

(* ------------------- reads: equality, roll, queries -------------------- *)

\* p == d
EqDice(d) ==
    /\ last' = Call("eq_dice", pool, d, Ok(DicePool_eq_dice(pool, d)))
    /\ UNCHANGED pool
    /\ base' = NoBase

\* p.roll(), i the index random.randrange draws (none when it raises)
Roll(i) ==
    /\ last' = Call("roll", pool, None, DicePool_roll(pool, i))
    /\ UNCHANGED pool
    /\ base' = NoBase

\* p.rgt(t)
Rgt(t) ==
    /\ last' = Call("rgt", pool, t, DicePool_rgt(pool, t))
    /\ UNCHANGED pool
    /\ base' = NoBase

\* p.rge(t)
Rge(t) ==
    /\ last' = Call("rge", pool, t, DicePool_rge(pool, t))
    /\ UNCHANGED pool
    /\ base' = NoBase

\* p.rlt(t)
Rlt(t) ==
    /\ last' = Call("rlt", pool, t, DicePool_rlt(pool, t))
    /\ UNCHANGED pool
    /\ base' = NoBase

\* p.rle(t)
Rle(t) ==
    /\ last' = Call("rle", pool, t, DicePool_rle(pool, t))
    /\ UNCHANGED pool
    /\ base' = NoBase

\* d.rgt(t)
DiceRgt(d, t) ==
    /\ last' = Call("Dice.rgt", d, t, Dice_rgt(d, t))
    /\ UNCHANGED pool
    /\ base' = NoBase

\* d.rge(t)
DiceRge(d, t) ==
    /\ last' = Call("Dice.rge", d, t, Dice_rge(d, t))
    /\ UNCHANGED pool
    /\ base' = NoBase

\* d.rlt(t)
DiceRlt(d, t) ==
    /\ last' = Call("Dice.rlt", d, t, Dice_rlt(d, t))
    /\ UNCHANGED pool
    /\ base' = NoBase

\* d.rle(t)
DiceRle(d, t) ==
    /\ last' = Call("Dice.rle", d, t, Dice_rle(d, t))
    /\ UNCHANGED pool
    /\ base' = NoBase

\* thresholds around the totals of a pool or the faces of a die
Thresholds(x) == (x.min - Slack)..(x.max + Slack)

\* the indices randrange can draw; one call is made when it raises
Draws(p) == IF RollIndices(p) = {} THEN {0} ELSE RollIndices(p)

NextRead ==
    \/ \E args \in CtorArgs(pool) : Construct(args)
    \/ \E d \in PoolDice : AddDice(d)
    \/ \E d \in PoolDice : EqDice(d)
    \/ \E i \in Draws(pool) : Roll(i)
    \/ \E t \in Thresholds(pool) : Rgt(t)
    \/ \E t \in Thresholds(pool) : Rge(t)
    \/ \E t \in Thresholds(pool) : Rlt(t)
    \/ \E t \in Thresholds(pool) : Rle(t)
    \/ \E d \in PoolDice : \E t \in Thresholds(d) : DiceRgt(d, t)
    \/ \E d \in PoolDice : \E t \in Thresholds(d) : DiceRge(d, t)
    \/ \E d \in PoolDice : \E t \in Thresholds(d) : DiceRlt(d, t)
    \/ \E d \in PoolDice : \E t \in Thresholds(d) : DiceRle(d, t)

SpecRead == Init /\ [][NextRead]_vars

(* ------------------ values: Dice(..) and normalize_rng ------------------ *)

Params == (-MaxP)..MaxP

\* d = Dice(p1)
NewDice1(p1) ==
    /\ last' = Call("Dice", None, <<p1, 0, FALSE>>, Dice_init(p1, 0, FALSE))
    /\ UNCHANGED <<pool, base>>

\* d = Dice(p1, p2)
NewDice2(p1, p2) ==
    /\ last' = Call("Dice", None, <<p1, p2, TRUE>>, Dice_init(p1, p2, TRUE))
    /\ UNCHANGED <<pool, base>>

\* normalize_rng(value)
Normalize(value) ==
    /\ last' = Call("normalize_rng", None, value, Ok(normalize_rng(value)))
    /\ UNCHANGED <<pool, base>>

\* normalize_rng(rng) for the range rng the last normalize_rng returned;
\* self keeps the value that call was given
NormalizeAgain ==
    /\ last.op = "normalize_rng"
    /\ last' = Call("normalize_rng_again", last.arg, RangeC(last.ret.rng),
                    Ok(normalize_rng(RangeC(last.ret.rng))))
    /\ UNCHANGED <<pool, base>>

\* raw ranges range(a, b), the empty range(a, a) included, and dice
NormalizeValues ==
    {RangeC(Range(a, b)) : a \in Params, b \in Params}
    \cup {DiceC(d) : d \in DiceOf({<<a, b, TRUE>> : a \in Params, b \in Params})}

NextValue ==
    \/ \E p1 \in Params : NewDice1(p1)
    \/ \E p1 \in Params, p2 \in Params : NewDice2(p1, p2)
    \/ \E value \in NormalizeValues : Normalize(value)
    \/ NormalizeAgain

SpecValue == Init /\ [][NextValue]_vars

(* ------------------------- properties: pools --------------------------- *)

\* the canonical range 1..N of a range or of a die's range, N its length
Canon(rng) == Range(1, RangeLen(rng) + 1)

KeySet(c) == {c[i].key : i \in 1..Len(c)}

SetMin(S) == CHOOSE x \in S : \A y \in S : x <= y

SetMax(S) == CHOOSE x \in S : \A y \in S : x >= y

Occurrences(rng, rngs) == Cardinality({i \in 1..Len(rngs) : rngs[i] = rng})

RECURSIVE ProdSizes(_)
ProdSizes(rngs) ==
    IF rngs = <<>> THEN 1 ELSE RangeLen(rngs[1]) * ProdSizes(Tail(rngs))

RECURSIVE SumTops(_)
SumTops(rngs) ==
    IF rngs = <<>> THEN 0 ELSE (rngs[1].stop - 1) + SumTops(Tail(rngs))

RECURSIVE ExpectedRngs(_)
\* the ranges claim C5 expects from the constructor's components
ExpectedRngs(args) ==
    IF args = <<>> THEN <<>>
    ELSE LET arg == Head(args)
         IN  (CASE arg.kind = "int"      -> <<>>
                [] arg.kind = "Dice"     -> <<Canon(arg.dice.rng)>>
                [] arg.kind = "range"    -> <<Canon(arg.range)>>
                [] arg.kind = "DicePool" -> arg.dicepool.rngs)
             \o ExpectedRngs(Tail(args))

RECURSIVE ExpectedMod(_)
\* the modifier claim C5 expects from the constructor's components
ExpectedMod(args) ==
    IF args = <<>> THEN 0
    ELSE LET arg == Head(args)
         IN  (CASE arg.kind = "int"      -> arg.int
                [] arg.kind = "Dice"     -> arg.dice.rng.start - 1
                [] arg.kind = "range"    -> arg.range.start - 1
                [] arg.kind = "DicePool" -> arg.dicepool.mod)
             + ExpectedMod(Tail(args))

HasPoolComponent(args) == \E i \in 1..Len(args) : args[i].kind = "DicePool"

NoEmptyComponent(args) ==
    \A i \in 1..Len(args) :
        /\ args[i].kind = "Dice" => RangeLen(args[i].dice.rng) >= 1
        /\ args[i].kind = "range" => RangeLen(args[i].range) >= 1

\* C5: a DicePool q given to the constructor (with non-empty other
\* components) contributes its ranges, in order, and its modifier to the new
\* pool; DicePool(q) alone has q's ranges, modifier and distribution.
C5_PoolComponentMerged ==
    (last.op = "DicePool" /\ HasPoolComponent(last.arg)
                          /\ NoEmptyComponent(last.arg))
    => /\ last.exc = "none"
       /\ pool.rngs = ExpectedRngs(last.arg)
       /\ pool.mod = ExpectedMod(last.arg)
       /\ Len(last.arg) = 1 => CounterEq(pool.dist, last.arg[1].dicepool.dist)

\* C6: when p - d is evaluated right after p = q + d, with d's canonical
\* range not otherwise present in q, it returns a pool with q's distribution
\* and q's modifier.
C6_SubInvertsAdd ==
    (last.op = "sub_dice" /\ base.set /\ last.arg = base.die
        /\ ~RangeIn(Canon(base.die.rng), base.pool.rngs))
    => /\ last.exc = "none"
       /\ CounterEq(pool.dist, base.pool.dist)
       /\ pool.mod = base.pool.mod

\* C6 witness: (q + d) - d was evaluated for a die d with an own modifier and
\* a pool q that holds another range and a modifier
C6_Witness ==
    /\ last.op = "sub_dice" /\ last.exc = "none" /\ base.set
    /\ last.arg = base.die
    /\ base.die.rng.start # 1
    /\ Len(base.pool.rngs) >= 1
    /\ base.pool.mod # 0
    /\ ~RangeIn(Canon(base.die.rng), base.pool.rngs)

\* C7: p - d raises ValueError and leaves p as it was when p holds no range
\* equal to d's canonical range; otherwise it returns a pool with exactly one
\* occurrence of that range removed and the other ranges kept.
C7_SubMissingRaises ==
    last.op = "sub_dice" =>
        LET rng == Canon(last.arg.rng)
        IN  IF ~RangeIn(rng, last.self.rngs)
            THEN /\ last.exc = "ValueError"
                 /\ pool = last.self
            ELSE /\ last.exc = "none"
                 /\ Len(pool.rngs) = Len(last.self.rngs) - 1
                 /\ Occurrences(rng, pool.rngs)
                        = Occurrences(rng, last.self.rngs) - 1
                 /\ \A i \in 1..Len(last.self.rngs) :
                        last.self.rngs[i] # rng =>
                            Occurrences(last.self.rngs[i], pool.rngs)
                                = Occurrences(last.self.rngs[i], last.self.rngs)

\* C7 witness: a non-empty die was subtracted from a pool that holds ranges,
\* none of them the die's, and the call raised
C7_Witness ==
    /\ last.op = "sub_dice" /\ last.exc = "ValueError"
    /\ RangeLen(last.arg.rng) >= 1
    /\ Len(last.self.rngs) >= 1
    /\ pool = last.self

\* C8: the multiplicities of a pool's distribution sum to the product of the
\* sizes of its ranges; a pool with no ranges has the single total mod, once.
C8_TotalMass ==
    /\ SumSeq(Values(pool.dist)) = ProdSizes(pool.rngs)
    /\ pool.rngs = <<>> => pool.dist = <<[key |-> pool.mod, n |-> 1]>>

\* C8 witness: an addition returned a pool of two ranges in which some total
\* is reached by more than one tuple
C8_Witness ==
    /\ last.op \in {"add_dice", "add_pool"} /\ last.exc = "none"
    /\ Len(pool.rngs) = 2
    /\ \E i \in 1..Len(pool.dist) : pool.dist[i].n >= 2

\* C10: min and max of a pool are the smallest and the largest key of its
\* distribution: mod + number of ranges, and mod + sum of the top faces.
C10_MinMaxAreExtremes ==
    (\A i \in 1..Len(pool.rngs) : RangeLen(pool.rngs[i]) >= 1)
    => /\ pool.min = SetMin(KeySet(pool.dist))
       /\ pool.max = SetMax(KeySet(pool.dist))
       /\ pool.min = pool.mod + Len(pool.rngs)
       /\ pool.max = pool.mod + SumTops(pool.rngs)

\* C10 witness: a pool of two ranges of different sizes and a modifier,
\* returned by a subtraction or an addition
C10_Witness ==
    /\ last.op \in {"add_int", "add_dice", "sub_int"} /\ last.exc = "none"
    /\ Len(pool.rngs) = 2 /\ pool.rngs[1] # pool.rngs[2]
    /\ pool.mod # 0
    /\ pool.min < pool.max

(* ------------------------- properties: reads --------------------------- *)

\* C1: for a die d with faces, p == d is true exactly when p's ranges are
\* the single canonical range of d and p's modifier is d's own modifier.
C1_EqDiceIffSingleCanonRange ==
    (last.op = "eq_dice" /\ RangeLen(last.arg.rng) >= 1)
    => (last.ret <=> (/\ last.self.rngs = <<Canon(last.arg.rng)>>
                      /\ last.self.mod = last.arg.rng.start - 1))

\* what p.roll() can return, over every index randrange can draw
RollValues(p) ==
    IF RollIndices(p) = {} THEN {}
    ELSE {DicePool_roll(p, i).val : i \in RollIndices(p)}

\* C2: for a pool p with component ranges, p.roll() returns a total of p's distribution, within [min, max], and
\* the values it can return are exactly the totals of the distribution.
C2_RollReturnsTotals ==
    (last.op = "roll" /\ Len(last.self.rngs) >= 1)
    => /\ last.exc = "none"
       /\ last.ret \in KeySet(last.self.dist)
       /\ last.self.min <= last.ret /\ last.ret <= last.self.max
       /\ RollValues(last.self) = KeySet(last.self.dist)

\* the query that is complementary to the one last called
Complement(op, x, t) ==
    CASE op = "rgt"      -> DicePool_rle(x, t)
      [] op = "rle"      -> DicePool_rgt(x, t)
      [] op = "rge"      -> DicePool_rlt(x, t)
      [] op = "rlt"      -> DicePool_rge(x, t)
      [] op = "Dice.rgt" -> Dice_rle(x, t)
      [] op = "Dice.rle" -> Dice_rgt(x, t)
      [] op = "Dice.rge" -> Dice_rlt(x, t)
      [] op = "Dice.rlt" -> Dice_rge(x, t)

QueryOps ==
    {"rgt", "rge", "rlt", "rle", "Dice.rgt", "Dice.rge", "Dice.rlt", "Dice.rle"}

\* x + y = 1 for two quotients
SumIsOne(x, y) == x.num * y.den + y.num * x.den = x.den * y.den

\* C3: each of rgt, rge, rlt, rle of a die or pool returns a value, and
\* rgt(t) + rle(t) = 1 and rge(t) + rlt(t) = 1.
C3_QueriesComplement ==
    last.op \in QueryOps
    => /\ last.exc = "none"
       /\ LET other == Complement(last.op, last.self, last.arg)
          IN  other.exc = "none" /\ SumIsOne(last.ret, other.val)

(* ------------------------- properties: values -------------------------- *)

\* quotient r equals n / d
RatIs(r, n, d) == r.num * d = n * r.den

\* C4: Dice(n), n >= 1, has min 1, max n, sides n and average (n + 1) / 2;
\* Dice(a, b), a <= b, has min a, max b and average (a + b) / 2.
C4_DiceAttributes ==
    last.op = "Dice"
    => LET p1 == last.arg[1]
           p2 == last.arg[2]
           two == last.arg[3]
       IN  /\ (~two /\ p1 >= 1)
               => /\ last.exc = "none"
                  /\ last.ret.min = 1 /\ last.ret.max = p1
                  /\ last.ret.sides = p1
                  /\ RatIs(last.ret.avg, p1 + 1, 2)
           /\ (two /\ p1 <= p2)
               => /\ last.exc = "none"
                  /\ last.ret.min = p1 /\ last.ret.max = p2
                  /\ RatIs(last.ret.avg, p1 + p2, 2)

\* the range a normalize_rng argument stands for
RangeOf(value) == IF value.kind = "Dice" THEN value.dice.rng ELSE value.range

RangeSet(r) == {r.start + i - 1 : i \in 1..RangeLen(r)}

\* C9: for a range [a, b) with b > a, raw or a die's, normalize_rng returns
\* the range [1, b - a + 1) and the modifier a - 1, the returned range shifted
\* by the modifier is the original value set, and normalising the returned
\* range again returns it with modifier 0.
C9_NormalizeCanonical ==
    (last.op \in {"normalize_rng", "normalize_rng_again"}
        /\ RangeLen(RangeOf(last.arg)) >= 1)
    => LET r == RangeOf(last.arg)
       IN  /\ last.exc = "none"
           /\ last.ret.rng = Range(1, r.stop - r.start + 1)
           /\ last.ret.mod = r.start - 1
           /\ {x + last.ret.mod : x \in RangeSet(last.ret.rng)} = RangeSet(r)
           /\ last.op = "normalize_rng_again"
                  => last.ret = [rng |-> last.arg.range, mod |-> 0]

\* C9 witness: a range of several values that does not start at 1 was
\* normalised, and the range returned was normalised again
C9_Witness ==
    /\ last.op = "normalize_rng_again"
    /\ RangeLen(RangeOf(last.self)) >= 2
    /\ RangeOf(last.self).start < 0
    /\ last.arg.range.start = 1
    /\ last.ret.mod = 0

====
